---- MODULE Spec2Model ----
(***************************************************************************)
(* A model of the AWGN BER simulator: awgn_ber.modulation,                 *)
(* awgn_ber.channel, awgn_ber.metrics and the sweep of                     *)
(* scripts/run_ber_vs_snr.py.                                              *)
(*                                                                         *)
(* Numbers.  Every real number the program handles here is a symbol value  *)
(* (+-1 or +-1/sqrt 2), a noise sample sigma * z, or the sum of the two.   *)
(* A term [sg, num, den] stands for sg * sqrt(num/den); a real is the sum  *)
(* of a signal term s and a noise term n.  Sign tests, the only thing the  *)
(* demodulators do with a real, are exact on this representation.          *)
(* Rounding of float64 is not modelled.                                    *)
(***************************************************************************)
EXTENDS Integers, Sequences, FiniteSets, TLC

VARIABLES
    last,     \* the last call made on the library, or the driver's last call
    rng,      \* the caller-owned random source (np.random.Generator state)
    pc,       \* position of scripts/run_ber_vs_snr.py main(): "idle" outside it
    args,     \* main's parsed command line
    run,      \* which execution of main with these args this is (1 or 2)
    n_bits,   \* main's local n_bits
    bits_tx,  \* main's local bits_tx
    x,        \* main's local x
    ber_list, \* main's local ber_list
    sweeps    \* the outcome of each finished execution of main

vars == <<last, rng, pc, args, run, n_bits, bits_tx, x, ber_list, sweeps>>

(***************************************************************************)
(* Bounds of the model.                                                    *)
(***************************************************************************)
MaxLen == 4       \* longest sequence of valid bits handed to the library
MaxBadLen == 2    \* longest sequence holding arbitrary integers
MaxBerLen == 2    \* longest sequence handed to ber and ser
MaxAwgnLen == 2   \* longest bit sequence whose symbols are handed to awgn
MaxDecades == 1   \* SNR points are 10*k dB, k in -MaxDecades..MaxDecades
RngMod == 8       \* number of states of the random source
ZMax == 2         \* standard normal draws are the integers -ZMax..ZMax
MaxSeed == 2      \* --seed is 0..MaxSeed
MaxBits == 4      \* --n_bits is at most MaxBits
MaxSnr == 2       \* --snr_db holds at most MaxSnr points

(***************************************************************************)
(* Arithmetic.                                                             *)
(***************************************************************************)
Abs(v) == IF v < 0 THEN -v ELSE v
Sign(v) == IF v < 0 THEN -1 ELSE IF v > 0 THEN 1 ELSE 0

RECURSIVE Gcd(_, _)
Gcd(a, b) == IF b = 0 THEN a ELSE Gcd(b, a % b)

RECURSIVE Pow10(_)
Pow10(k) == IF k = 0 THEN 1 ELSE 10 * Pow10(k - 1)

\* The rational n/d, d > 0, in lowest terms.
Rat(n, d) ==
    LET g == Gcd(Abs(n), d)
    IN  [num |-> n \div g, den |-> d \div g]

\* sg * sqrt(n/d), in lowest terms; zero has one representation.
Term(sg, n, d) ==
    IF sg = 0 \/ n = 0 THEN [sg |-> 0, num |-> 0, den |-> 1]
    ELSE LET g == Gcd(n, d)
         IN  [sg |-> sg, num |-> n \div g, den |-> d \div g]

ZeroT == Term(0, 0, 1)
IntT(v) == Term(Sign(v), v * v, 1)

\* The real s + n; a clean value has no noise term.
Real(s, n) == [s |-> s, n |-> n]
Clean(t) == Real(t, ZeroT)

\* t1 > t2 for terms of sign >= 0 (compare the squares).
MagGreater(t1, t2) == t1.num * t2.den > t2.num * t1.den

\* r < 0 for the real r = s + n.
IsNegative(r) ==
    IF r.s.sg <= 0 /\ r.n.sg <= 0 THEN r.s.sg < 0 \/ r.n.sg < 0
    ELSE IF r.s.sg >= 0 /\ r.n.sg >= 0 THEN FALSE
    ELSE IF r.s.sg < 0 THEN MagGreater(r.s, r.n)
    ELSE MagGreater(r.n, r.s)

\* r * sqrt 2 and r / sqrt 2.
MulSqrt2T(t) == Term(t.sg, 2 * t.num, t.den)
DivSqrt2T(t) == Term(t.sg, t.num, 2 * t.den)
MulSqrt2(r) == Real(MulSqrt2T(r.s), MulSqrt2T(r.n))
DivSqrt2(r) == Real(DivSqrt2T(r.s), DivSqrt2T(r.n))

Complex(re, im) == [re |-> re, im |-> im]

(***************************************************************************)
(* numpy arrays: the number of dimensions, the element type and the        *)
(* elements in order.  Results and raised errors.                          *)
(***************************************************************************)
Arr(ndim, dtype, flat) == [ndim |-> ndim, dtype |-> dtype, flat |-> flat]
Size(a) == Len(a.flat)

Ok(v) == [ok |-> TRUE, val |-> v, err |-> "none"]
Raise(msg) == [ok |-> FALSE, val |-> <<>>, err |-> msg]

\* ndarray.astype(np.uint8): a C cast, which wraps modulo 256.  The elements
\* of a bool array are written 0 (False) and 1 (True).
ToUint8(v) == v % 256
astype_uint8(a) == Arr(a.ndim, "uint8", [i \in DOMAIN a.flat |-> ToUint8(a.flat[i])])

(***************************************************************************)
(* Strings are sequences of characters; str.lower and str.strip.           *)
(***************************************************************************)
Uppercase == {"B", "P", "S", "K", "Q", "A", "M"}
LowerOf == [c \in Uppercase |->
              CASE c = "B" -> "b" [] c = "P" -> "p" [] c = "S" -> "s"
                [] c = "K" -> "k" [] c = "Q" -> "q" [] c = "A" -> "a"
                [] c = "M" -> "m"]
Whitespace == {" ", "\t", "\n"}

lower(str) == [i \in DOMAIN str |-> IF str[i] \in Uppercase THEN LowerOf[str[i]] ELSE str[i]]

RECURSIVE lstrip(_)
lstrip(str) ==
    IF str # <<>> /\ Head(str) \in Whitespace THEN lstrip(Tail(str)) ELSE str

RECURSIVE rstrip(_)
rstrip(str) ==
    IF str # <<>> /\ str[Len(str)] \in Whitespace
    THEN rstrip(SubSeq(str, 1, Len(str) - 1)) ELSE str

strip(str) == rstrip(lstrip(str))

bpsk == <<"b", "p", "s", "k">>
qpsk == <<"q", "p", "s", "k">>

(***************************************************************************)
(* awgn_ber.modulation                                                     *)
(***************************************************************************)
validate_bits(bits) ==
    IF bits.ndim # 1 THEN Raise("bits must be a 1D array of shape (N,)")
    ELSE LET cast == astype_uint8(bits)
         IN  IF \E i \in DOMAIN cast.flat : cast.flat[i] # 0 /\ cast.flat[i] # 1
             THEN Raise("bits array must contain only 0s and 1s")
             ELSE Ok(cast)

\* 1.0 - 2.0 * bits.astype(np.float64)
bpsk_symbol(b) == Clean(IntT(1 - 2 * b))

bpsk_modulate(bits) ==
    LET v == validate_bits(bits)
    IN  IF ~v.ok THEN v
        ELSE Ok(Arr(1, "float64", [i \in DOMAIN v.val.flat |-> bpsk_symbol(v.val.flat[i])]))

\* np.asarray(symbols, dtype=np.float64): the imaginary part of a complex
\* array is discarded.
as_float64(symbols) ==
    IF symbols.dtype = "complex128"
    THEN Arr(symbols.ndim, "float64", [i \in DOMAIN symbols.flat |-> symbols.flat[i].re])
    ELSE symbols

bpsk_decide(sym) == IF IsNegative(sym) THEN 1 ELSE 0

bpsk_demodulate(symbols) ==
    LET s == as_float64(symbols)
    IN  IF s.ndim # 1 THEN Raise("symbols must be a 1D array of shape (N,)")
        ELSE Ok(Arr(1, "uint8", [i \in DOMAIN s.flat |-> bpsk_decide(s.flat[i])]))

\* the mapping with b0 on the real axis and b1 on the imaginary one
mapping_transposed ==
    (<<0, 0>> :> [re |-> 1, im |-> 1]) @@
    (<<0, 1>> :> [re |-> 1, im |-> -1]) @@
    (<<1, 1>> :> [re |-> -1, im |-> -1]) @@
    (<<1, 0>> :> [re |-> -1, im |-> 1])

\* The Gray mapping dictionary of qpsk_modulate, before normalization.
mapping ==
    (<<0, 0>> :> [re |-> 1, im |-> 1]) @@
    (<<0, 1>> :> [re |-> -1, im |-> 1]) @@
    (<<1, 1>> :> [re |-> -1, im |-> -1]) @@
    (<<1, 0>> :> [re |-> 1, im |-> -1])

\* bits.reshape(-1, 2)[k], for k counted from 1
bit_pair(flat, k) == <<flat[2 * k - 1], flat[2 * k]>>

\* mapping[tuple(pair)] as complex128, then symbols /= np.sqrt(2.0)
qpsk_symbol(pair) ==
    LET m == mapping[pair]
    IN  Complex(DivSqrt2(Clean(IntT(m.re))), DivSqrt2(Clean(IntT(m.im))))

qpsk_modulate(bits) ==
    LET v == validate_bits(bits)
    IN  IF ~v.ok THEN v
        ELSE IF Size(v.val) % 2 # 0
        THEN Raise("Number of bits must be even for QPSK modulation")
        ELSE Ok(Arr(1, "complex128",
                    [k \in 1..(Size(v.val) \div 2) |-> qpsk_symbol(bit_pair(v.val.flat, k))]))

\* np.asarray(symbols, dtype=np.complex128): a real array gets a zero
\* imaginary part.
as_complex128(symbols) ==
    IF symbols.dtype = "complex128" THEN symbols
    ELSE Arr(symbols.ndim, "complex128",
             [i \in DOMAIN symbols.flat |-> Complex(symbols.flat[i], Clean(ZeroT))])

\* b0 decided on the real part
qpsk_decide_b0_on_real(sym) == IF IsNegative(MulSqrt2(sym.re)) THEN 1 ELSE 0

\* b0 = (imag < 0), b1 = (real < 0), after s = s * np.sqrt(2.0)
qpsk_decide_b0(sym) == IF IsNegative(MulSqrt2(sym.im)) THEN 1 ELSE 0
qpsk_decide_b1(sym) == IF IsNegative(MulSqrt2(sym.re)) THEN 1 ELSE 0

qpsk_demodulate(symbols) ==
    LET s == as_complex128(symbols)
    IN  IF s.ndim # 1 THEN Raise("symbols must be a 1D array")
        ELSE Ok(Arr(1, "uint8",
                    [i \in 1..(2 * Size(s)) |->
                        IF i % 2 = 1 THEN qpsk_decide_b0(s.flat[(i + 1) \div 2])
                        ELSE qpsk_decide_b1(s.flat[i \div 2])]))

\* lower-casing without trimming
normalize_without_strip(scheme) == lower(scheme)

\* scheme.lower().strip()
normalize_scheme(scheme) == strip(lower(scheme))

modulate(bits, scheme) ==
    LET sch == normalize_scheme(scheme)
    IN  IF sch = bpsk THEN bpsk_modulate(bits)
        ELSE IF sch = qpsk THEN qpsk_modulate(bits)
        ELSE Raise("Unsupported modulation scheme")

demodulate(symbols, scheme) ==
    LET sch == normalize_scheme(scheme)
    IN  IF sch = bpsk THEN bpsk_demodulate(symbols)
        ELSE IF sch = qpsk THEN qpsk_demodulate(symbols)
        ELSE Raise("Unsupported modulation scheme")

(***************************************************************************)
(* np.random.Generator.  The state is a number in 0..RngMod-1 stepped by a *)
(* linear congruence; every value drawn steps the state once and is a      *)
(* function of the new state.  A standard normal draw is an integer in     *)
(* -ZMax..ZMax.  None stands for "no generator given".                     *)
(***************************************************************************)
Gen(state) == [some |-> TRUE, state |-> state]
None == [some |-> FALSE, state |-> 0]

default_rng(seed) == Gen(seed % RngMod)

rng_step(state) == (5 * state + 3) % RngMod

RECURSIVE rng_states(_, _)
\* the n states the generator goes through while drawing n values
rng_states(state, n) ==
    IF n = 0 THEN <<>> ELSE <<rng_step(state)>> \o rng_states(rng_step(state), n - 1)

rng_after(state, n) == IF n = 0 THEN state ELSE rng_states(state, n)[n]

standard_normal(state) == (state % (2 * ZMax + 1)) - ZMax

\* rng.normal(0.0, sigma, size=n): the samples sigma * z and the state after
rng_normal(state, sigma, n) ==
    [samples |-> [i \in 1..n |->
                    LET z == standard_normal(rng_states(state, n)[i])
                    IN  Term(Sign(z) * sigma.sg, z * z * sigma.num, sigma.den)],
     state |-> rng_after(state, n)]

\* rng.integers(0, 2, size=n, dtype=np.uint8)
rng_integers(state, n) ==
    [samples |-> [i \in 1..n |-> (rng_states(state, n)[i] \div 2) % 2],
     state |-> rng_after(state, n)]

(***************************************************************************)
(* awgn_ber.channel.  An SNR in dB is a multiple of 10 or minus infinity.  *)
(***************************************************************************)
Db(d) == [cls |-> "finite", db |-> d]
NegInf == [cls |-> "-inf", db |-> 0]

\* np.power(10.0, snr_db / 10.0)
snr_db_to_linear(snr_db) ==
    IF snr_db.cls = "-inf" THEN Rat(0, 1)
    ELSE IF snr_db.db >= 0 THEN Rat(Pow10(snr_db.db \div 10), 1)
    ELSE Rat(1, Pow10((-snr_db.db) \div 10))

noise_variance_docstring(snr_db, complex_noise) ==
    LET snr_lin == snr_db_to_linear(snr_db)
    IN  IF snr_lin.num <= 0
        THEN Raise("snr_db must correpond to a positve linear SNR")
        ELSE Ok(Rat(snr_lin.den, 2 * snr_lin.num))

noise_variance_awgn(snr_db, complex_noise) ==
    LET snr_lin == snr_db_to_linear(snr_db)
    IN  IF snr_lin.num <= 0
        THEN Raise("snr_db must correpond to a positve linear SNR")
        ELSE IF complex_noise THEN Ok(Rat(snr_lin.den, snr_lin.num))
        ELSE Ok(Rat(snr_lin.den, 2 * snr_lin.num))

iscomplexobj(xa) == xa.dtype = "complex128"

\* np.sqrt of a rational
Sqrt(q) == Term(Sign(q.num), q.num, q.den)
Half(q) == Rat(q.num, 2 * q.den)

\* x + n for a clean x
AddNoise(r, noise) == Real(r.s, noise)

source_fresh_always(gen, entropy) == Gen(entropy)

\* if rng is None: rng = np.random.default_rng(), seeded from the OS
source_for(gen, entropy) == IF ~gen.some THEN Gen(entropy) ELSE gen

\* What a call leaves behind: the result, the state of the generator that
\* was passed in, the caller's x, and the sigma handed to rng.normal.
Effect(out, gen, xa, sigma) == [out |-> out, rng |-> gen, x |-> xa, sigma |-> sigma]

\* the state of the caller's generator once the source g has reached `state`
Advance(gen, state) == IF gen.some THEN Gen(state) ELSE gen

awgn_complex(xa, snr_db, gen, g) ==
    LET sigma2 == noise_variance_awgn(snr_db, TRUE)
    IN  IF ~sigma2.ok THEN Effect(sigma2, gen, xa, ZeroT)
        ELSE LET sigma == Sqrt(Half(sigma2.val))
                 nre == rng_normal(g.state, sigma, Size(xa))
                 nim == rng_normal(nre.state, sigma, Size(xa))
             IN  Effect(Ok(Arr(1, "complex128",
                               [i \in DOMAIN xa.flat |->
                                   Complex(AddNoise(xa.flat[i].re, nre.samples[i]),
                                           AddNoise(xa.flat[i].im, nim.samples[i]))])),
                        Advance(gen, nim.state), xa, sigma)

awgn_real_draw_first(xa, snr_db, gen, g) ==
    LET sigma2 == noise_variance_awgn(snr_db, FALSE)
        z == rng_normal(g.state, IntT(1), Size(xa))
    IN  IF ~sigma2.ok THEN Effect(sigma2, Advance(gen, z.state), xa, ZeroT)
        ELSE LET sigma == Sqrt(sigma2.val)
                 n == rng_normal(g.state, sigma, Size(xa))
             IN  Effect(Ok(Arr(1, "float64",
                               [i \in DOMAIN xa.flat |-> AddNoise(xa.flat[i], n.samples[i])])),
                        Advance(gen, n.state), xa, sigma)

awgn_real(xa, snr_db, gen, g) ==
    LET sigma2 == noise_variance_awgn(snr_db, FALSE)
    IN  IF ~sigma2.ok THEN Effect(sigma2, gen, xa, ZeroT)
        ELSE LET sigma == Sqrt(sigma2.val)
                 n == rng_normal(g.state, sigma, Size(xa))
             IN  Effect(Ok(Arr(1, "float64",
                               [i \in DOMAIN xa.flat |-> AddNoise(xa.flat[i], n.samples[i])])),
                        Advance(gen, n.state), xa, sigma)

\* awgn(x, snr_db, rng); entropy is what the OS would seed a fresh source with
awgn(xa, snr_db, gen, entropy) ==
    IF xa.ndim # 1 THEN Effect(Raise("x must be a 1D array"), gen, xa, ZeroT)
    ELSE IF iscomplexobj(xa) THEN awgn_complex(xa, snr_db, gen, source_for(gen, entropy))
    ELSE awgn_real(xa, snr_db, gen, source_for(gen, entropy))

(***************************************************************************)
(* awgn_ber.metrics                                                        *)
(***************************************************************************)
RECURSIVE np_sum(_)
\* np.sum / np.count_nonzero of a boolean vector
np_sum(flags) ==
    IF flags = <<>> THEN 0 ELSE (IF Head(flags) THEN 1 ELSE 0) + np_sum(Tail(flags))

\* the comparison stopping one element short
not_equal_short(a, b) == [i \in DOMAIN a.flat |-> i < Len(a.flat) /\ a.flat[i] # b.flat[i]]

not_equal(a, b) == [i \in DOMAIN a.flat |-> a.flat[i] # b.flat[i]]

not_binary(a) == \E i \in DOMAIN a.flat : a.flat[i] # 0 /\ a.flat[i] # 1

\* ber testing for emptiness before it compares the sizes
ber_empty_first(bits_a, bits_b) ==
    IF bits_a.ndim # 1 \/ bits_b.ndim # 1
    THEN Raise("bits_tx and bits_rx must be 1D arrays")
    ELSE IF Size(bits_a) = 0 THEN Raise("Cannot compute BER with empty arrays")
    ELSE IF Size(bits_a) # Size(bits_b) THEN Raise("Shape mismatch: bitstx")
    ELSE LET tx == astype_uint8(bits_a)
             rx == astype_uint8(bits_b)
         IN  IF not_binary(tx) \/ not_binary(rx)
             THEN Raise("bits_tx must contain only 0s and 1s")
             ELSE Ok(Rat(np_sum(not_equal(tx, rx)), Size(tx)))

ber(bits_a, bits_b) ==
    IF bits_a.ndim # 1 \/ bits_b.ndim # 1
    THEN Raise("bits_tx and bits_rx must be 1D arrays")
    ELSE IF Size(bits_a) # Size(bits_b) THEN Raise("Shape mismatch: bitstx")
    ELSE IF Size(bits_a) = 0 THEN Raise("Cannot compute BER with empty arrays")
    ELSE LET tx == astype_uint8(bits_a)
             rx == astype_uint8(bits_b)
         IN  IF not_binary(tx) \/ not_binary(rx)
             THEN Raise("bits_tx must contain only 0s and 1s")
             ELSE Ok(Rat(np_sum(not_equal(tx, rx)), Size(tx)))

ser(symbols_a, symbols_b) ==
    IF symbols_a.ndim # 1 \/ symbols_b.ndim # 1
    THEN Raise("symbols_tx and symbols_rx must be 1D arrays")
    ELSE IF Size(symbols_a) # Size(symbols_b)
    THEN Raise("Shape mismatch between symbols_tx and symbols_rx")
    ELSE IF Size(symbols_a) = 0 THEN Raise("Cannot compute SER on empty arrays")
    ELSE Ok(Rat(np_sum(not_equal(symbols_a, symbols_b)), Size(symbols_a)))

(***************************************************************************)
(* Inputs.                                                                 *)
(***************************************************************************)
Seqs(S, n) == UNION {[1..k -> S] : k \in 0..n}

UpperOf == [c \in {"b", "p", "s", "k", "q"} |->
              CASE c = "b" -> "B" [] c = "p" -> "P" [] c = "s" -> "S"
                [] c = "k" -> "K" [] c = "q" -> "Q"]

\* word with the letters at the positions of mask in upper case
Cased(word, mask) == [i \in DOMAIN word |-> IF i \in mask THEN UpperOf[word[i]] ELSE word[i]]

CaseMasks == {{}, {1}, {2, 4}, {1, 2, 3, 4}}

SchemeCores ==
    {Cased(w, m) : w \in {bpsk, qpsk}, m \in CaseMasks}
    \cup {<<>>, <<"p", "s", "k">>, <<"b", "p", " ", "s", "k">>, <<"1", "6", "q", "a", "m">>}

Pads == {<<>>, <<" ">>, <<"\t", "\n">>}

SchemeInputs == {l \o c \o r : l \in Pads, c \in SchemeCores, r \in Pads}

IntValues == {0, 1, 2, -1, 256, -255}

BitInputs ==
    {Arr(1, "int64", f) : f \in Seqs({0, 1}, MaxLen)}
    \cup {Arr(1, "int64", f) : f \in Seqs(IntValues, MaxBadLen)}
    \cup {Arr(2, "int64", f) : f \in Seqs({0, 1}, MaxBadLen)}
    \cup {Arr(1, "bool", f) : f \in Seqs({0, 1}, MaxBadLen)}

BerInputs ==
    {Arr(1, "int64", f) : f \in Seqs({0, 1, 2, 256}, MaxBerLen)}
    \cup {Arr(2, "int64", f) : f \in Seqs({0, 1}, MaxBerLen)}

\* symbols of short bit sequences as 1-D arrays, and those of at most one
\* symbol reshaped to 2-D
CleanSymbols ==
    {r.val : r \in {m \in {modulate(Arr(1, "int64", f), sch) :
                              f \in Seqs({0, 1}, MaxAwgnLen), sch \in {bpsk, qpsk}} : m.ok}}

SymbolInputs ==
    CleanSymbols \cup {Arr(2, a.dtype, a.flat) : a \in {c \in CleanSymbols : Size(c) <= 1}}

SnrInputs == {NegInf} \cup {Db(10 * k) : k \in (-MaxDecades)..MaxDecades}

RngStates == 0..(RngMod - 1)

\* what the OS may seed a fresh source with: two of its states
EntropyInputs == {0, RngMod - 1}

\* the command lines of scripts/run_ber_vs_snr.py
SweepPoints == {NegInf, Db(-10), Db(0), Db(10)}
ArgSets ==
    [mod : {bpsk, qpsk},
     snr_db : Seqs(SweepPoints, MaxSnr) \ {<<>>},
     n_bits : 0..MaxBits,
     seed : 0..MaxSeed]

NoCall == [fn |-> "none", caller |-> "none"]
NoArgs == [mod |-> <<>>, snr_db |-> <<>>, n_bits |-> 0, seed |-> 0]
EmptyArr == Arr(1, "uint8", <<>>)

(***************************************************************************)
(* The library called by a user.  A call that neither reads nor writes a   *)
(* generator is explored as the first call of a session; demodulate is     *)
(* also explored on what that first modulate returned.  A session that     *)
(* creates a generator goes on calling awgn with it.                       *)
(***************************************************************************)
Init ==
    /\ last = NoCall
    /\ rng = None
    /\ pc = "idle"
    /\ args = NoArgs
    /\ run = 0
    /\ n_bits = 0
    /\ bits_tx = EmptyArr
    /\ x = EmptyArr
    /\ ber_list = <<>>
    /\ sweeps = <<>>

driver == <<pc, args, run, n_bits, bits_tx, x, ber_list, sweeps>>

Modulate ==
    /\ pc = "idle" /\ ~rng.some /\ last.fn = "none"
    /\ \E bits \in BitInputs, scheme \in SchemeInputs :
          last' = [fn |-> "modulate", caller |-> "user", bits |-> bits,
                   scheme |-> scheme, out |-> modulate(bits, scheme)]
    /\ UNCHANGED <<rng, driver>>

\* demodulate, on the symbols the modulate before it returned and with the
\* scheme name given to it (chained), or on symbols of the caller's own
Demodulate ==
    /\ pc = "idle" /\ ~rng.some
    /\ \E chained \in BOOLEAN :
          /\ IF chained THEN last.fn = "modulate" /\ last.out.ok ELSE last.fn = "none"
          /\ \E symbols \in IF chained THEN {last.out.val} ELSE SymbolInputs,
                scheme \in IF chained THEN {last.scheme} ELSE SchemeInputs :
                last' = [fn |-> "demodulate", caller |-> "user", chained |-> chained,
                         tx |-> IF chained THEN last.bits ELSE EmptyArr,
                         symbols |-> symbols, scheme |-> scheme,
                         out |-> demodulate(symbols, scheme)]
    /\ UNCHANGED <<rng, driver>>

Ber ==
    /\ pc = "idle" /\ ~rng.some /\ last.fn = "none"
    /\ \E a \in BerInputs, b \in BerInputs :
          last' = [fn |-> "ber", caller |-> "user", a |-> a, b |-> b, out |-> ber(a, b)]
    /\ UNCHANGED <<rng, driver>>

Ser ==
    /\ pc = "idle" /\ ~rng.some /\ last.fn = "none"
    /\ \E a \in BerInputs, b \in BerInputs :
          last' = [fn |-> "ser", caller |-> "user", a |-> a, b |-> b, out |-> ser(a, b)]
    /\ UNCHANGED <<rng, driver>>

NoiseVariance ==
    /\ pc = "idle" /\ ~rng.some /\ last.fn = "none"
    /\ \E snr_db \in SnrInputs, complex_noise \in BOOLEAN :
          last' = [fn |-> "noise_variance_awgn", caller |-> "user", snr_db |-> snr_db,
                   complex_noise |-> complex_noise,
                   out |-> noise_variance_awgn(snr_db, complex_noise)]
    /\ UNCHANGED <<rng, driver>>

\* rng = np.random.default_rng(seed), first thing in a session
NewRng ==
    /\ pc = "idle" /\ ~rng.some /\ last.fn = "none"
    /\ \E seed \in RngStates : rng' = default_rng(seed)
    /\ UNCHANGED <<last, driver>>

\* awgn(x, snr_db, rng) with the caller's generator, or awgn(x, snr_db) by
\* a caller that has none
Awgn ==
    /\ pc = "idle"
    /\ rng.some \/ last.fn = "none"
    /\ \E xa \in SymbolInputs, snr_db \in SweepPoints,
          entropy \in IF rng.some THEN {0} ELSE EntropyInputs :
          LET e == awgn(xa, snr_db, rng, entropy)
          IN  /\ last' = [fn |-> "awgn", caller |-> "user", x |-> xa, snr_db |-> snr_db,
                          given |-> rng.some, rng_before |-> rng, eff |-> e]
              /\ rng' = e.rng
    /\ UNCHANGED driver

(***************************************************************************)
(* scripts/run_ber_vs_snr.py: main().  An exception ends the process       *)
(* ("failed").  The same command line is run a second time after the       *)
(* first execution ends, so that two executions can be compared.           *)
(***************************************************************************)
Outcome(status, bers) == [status |-> status, ber_list |-> bers]

\* n_bits taken as given
n_bits_as_given(a) == a.n_bits

\* n_bits as main uses it: an odd count is raised by one for QPSK
adjusted_n_bits(a) ==
    IF a.mod = qpsk /\ a.n_bits % 2 # 0 THEN a.n_bits + 1 ELSE a.n_bits

\* lines 63-77 of main, for the command line a in execution r
Begin(a, r) ==
    /\ args' = a
    /\ run' = r
    /\ rng' = default_rng(a.seed)
    /\ last' = NoCall
    /\ bits_tx' = EmptyArr
    /\ x' = EmptyArr
    /\ ber_list' = <<>>
    /\ IF a.n_bits <= 0
       THEN /\ n_bits' = a.n_bits
            /\ pc' = "failed"
            /\ sweeps' = Append(sweeps, Outcome("--n_bits must be positive", <<>>))
       ELSE /\ n_bits' = adjusted_n_bits(a)
            /\ pc' = "generate"
            /\ UNCHANGED sweeps

MainBegin ==
    /\ pc = "idle" /\ ~rng.some /\ last.fn = "none" /\ run = 0
    /\ \E a \in ArgSets : Begin(a, 1)

Rerun ==
    /\ pc \in {"done", "failed"} /\ run = 1
    /\ Begin(args, 2)

\* bits_tx = rng.integers(0, 2, size=n_bits, dtype=np.uint8)
MainGenerate ==
    /\ pc = "generate"
    /\ LET d == rng_integers(rng.state, n_bits)
       IN  /\ bits_tx' = Arr(1, "uint8", d.samples)
           /\ rng' = Gen(d.state)
    /\ pc' = "modulate"
    /\ UNCHANGED <<last, args, run, n_bits, x, ber_list, sweeps>>

\* x = modulate(bits_tx, scheme=args.mod)
MainModulate ==
    /\ pc = "modulate"
    /\ LET r == modulate(bits_tx, args.mod)
       IN  /\ last' = [fn |-> "modulate", caller |-> "main", bits |-> bits_tx,
                       scheme |-> args.mod, out |-> r]
           /\ IF r.ok
              THEN x' = r.val /\ pc' = "sweep" /\ UNCHANGED sweeps
              ELSE /\ pc' = "failed"
                   /\ sweeps' = Append(sweeps, Outcome(r.err, ber_list))
                   /\ UNCHANGED x
    /\ UNCHANGED <<rng, args, run, n_bits, bits_tx, ber_list>>

\* one pass of the loop over snr_db_list: awgn, demodulate, ber, append
MainSweepPoint ==
    /\ pc = "sweep" /\ Len(ber_list) < Len(args.snr_db)
    /\ \E entropy \in EntropyInputs :
          LET snr_db == args.snr_db[Len(ber_list) + 1]
              e == awgn(x, snr_db, rng, entropy)
              bits_rx == IF e.out.ok THEN demodulate(e.out.val, args.mod) ELSE e.out
              ber_val == IF bits_rx.ok THEN ber(bits_tx, bits_rx.val) ELSE bits_rx
          IN  /\ last' = [fn |-> "awgn", caller |-> "main", x |-> x, snr_db |-> snr_db,
                          given |-> TRUE, rng_before |-> rng, eff |-> e]
              /\ rng' = e.rng
              /\ x' = e.x
              /\ IF ber_val.ok
                 THEN /\ ber_list' = Append(ber_list, ber_val.val)
                      /\ UNCHANGED <<pc, sweeps>>
                 ELSE /\ pc' = "failed"
                      /\ sweeps' = Append(sweeps, Outcome(ber_val.err, ber_list))
                      /\ UNCHANGED ber_list
    /\ UNCHANGED <<args, run, n_bits, bits_tx>>

\* the loop is over: the table of results is what the run leaves behind
MainFinish ==
    /\ pc = "sweep" /\ Len(ber_list) = Len(args.snr_db)
    /\ pc' = "done"
    /\ sweeps' = Append(sweeps, Outcome("done", ber_list))
    /\ UNCHANGED <<last, rng, args, run, n_bits, bits_tx, x, ber_list>>

Next ==
    \/ Modulate
    \/ Demodulate
    \/ Ber
    \/ Ser
    \/ NoiseVariance
    \/ NewRng
    \/ Awgn
    \/ MainBegin
    \/ MainGenerate
    \/ MainModulate
    \/ MainSweepPoint
    \/ MainFinish
    \/ Rerun

Spec == Init /\ [][Next]_vars

(***************************************************************************)
(* Vocabulary of the claims.  The program raises ValueError everywhere;    *)
(* the kind of an error is told by the message of the raise statement.     *)
(***************************************************************************)
ErrorKind(msg) ==
    CASE msg \in {"bits must be a 1D array of shape (N,)",
                  "bits array must contain only 0s and 1s",
                  "Number of bits must be even for QPSK modulation",
                  "symbols must be a 1D array of shape (N,)",
                  "symbols must be a 1D array",
                  "x must be a 1D array"} -> "InvalidInputError"
      [] msg = "Unsupported modulation scheme" -> "UnsupportedSchemeError"
      [] msg \in {"bits_tx and bits_rx must be 1D arrays",
                  "Shape mismatch: bitstx",
                  "symbols_tx and symbols_rx must be 1D arrays",
                  "Shape mismatch between symbols_tx and symbols_rx"} -> "ShapeMismatchError"
      [] msg \in {"Cannot compute BER with empty arrays",
                  "Cannot compute SER on empty arrays"} -> "EmptyInputError"
      [] msg = "bits_tx must contain only 0s and 1s" -> "InvalidBitValueError"
      [] msg = "snr_db must correpond to a positve linear SNR" -> "InvalidSNRError"
      [] OTHER -> "none"

\* the call failed with an error of this kind and returned nothing
FailsWith(out, kind) == ~out.ok /\ out.val = <<>> /\ ErrorKind(out.err) = kind

\* a 1-D sequence whose elements are all 0 or 1
IsBitSequence(a) == a.ndim = 1 /\ \A i \in DOMAIN a.flat : a.flat[i] \in {0, 1}

HasNonBinary(a) == \E i \in DOMAIN a.flat : a.flat[i] \notin {0, 1}

\* C1: without noise, demodulate(modulate(b, scheme), scheme) has the length
\* of b and equals b element for element, for every sequence b of 0s and 1s
\* (of even length under qpsk), under bpsk and under qpsk; modulate accepts
\* every such b.
C1_RoundTrip ==
    /\ (/\ last.fn = "modulate" /\ last.scheme \in {bpsk, qpsk}
        /\ IsBitSequence(last.bits)
        /\ (last.scheme = qpsk => Size(last.bits) % 2 = 0))
       => last.out.ok
    /\ (/\ last.fn = "demodulate" /\ last.chained /\ last.scheme \in {bpsk, qpsk}
        /\ IsBitSequence(last.tx))
       => /\ last.out.ok
          /\ last.out.val.ndim = 1
          /\ Size(last.out.val) = Size(last.tx)
          /\ \A i \in DOMAIN last.tx.flat : last.out.val.flat[i] = last.tx.flat[i]

C1_Witness ==
    /\ last.fn = "demodulate" /\ last.chained /\ last.scheme = qpsk
    /\ last.tx.flat = <<1, 0, 0, 1>>
    /\ last.out.ok /\ last.out.val.flat = <<1, 0, 0, 1>>

\* the symbol the specification's table gives for the pair (b0, b1), before
\* the division by sqrt 2
TableSymbol(b0, b1) ==
    CASE b0 = 0 /\ b1 = 0 -> [re |-> 1, im |-> 1]
      [] b0 = 0 /\ b1 = 1 -> [re |-> -1, im |-> 1]
      [] b0 = 1 /\ b1 = 1 -> [re |-> -1, im |-> -1]
      [] b0 = 1 /\ b1 = 0 -> [re |-> 1, im |-> -1]

\* C2: modulate maps bit i to symbol i with 0 -> +1 and 1 -> -1 under bpsk;
\* under qpsk symbol k is, times sqrt 2, the table's symbol for the pair
\* (b[2k], b[2k+1]) (counted from 0), its imaginary part negative iff b0 = 1
\* and its real part negative iff b1 = 1; N symbols for bpsk, N/2 for qpsk.
C2_Constellation ==
    (last.fn = "modulate" /\ last.out.ok /\ IsBitSequence(last.bits)
        /\ last.scheme \in {bpsk, qpsk})
    => LET b == last.bits.flat
           sym == last.out.val.flat
       IN  IF last.scheme = bpsk
           THEN /\ Len(sym) = Len(b)
                /\ \A i \in DOMAIN b :
                      sym[i] = Clean(IntT(IF b[i] = 0 THEN 1 ELSE -1))
           ELSE /\ 2 * Len(sym) = Len(b)
                /\ \A k \in DOMAIN sym :
                      LET t == TableSymbol(b[2 * k - 1], b[2 * k])
                      IN  /\ MulSqrt2(sym[k].re) = Clean(IntT(t.re))
                          /\ MulSqrt2(sym[k].im) = Clean(IntT(t.im))
                          /\ IsNegative(sym[k].im) <=> b[2 * k - 1] = 1
                          /\ IsNegative(sym[k].re) <=> b[2 * k] = 1

C2_Witness ==
    /\ last.fn = "modulate" /\ last.scheme = qpsk /\ last.out.ok
    /\ last.bits.flat = <<0, 1, 1, 0>>
    /\ Size(last.out.val) = 2
    /\ IsNegative(last.out.val.flat[1].re) /\ ~IsNegative(last.out.val.flat[1].im)
    /\ ~IsNegative(last.out.val.flat[2].re) /\ IsNegative(last.out.val.flat[2].im)

\* the scheme name as the specification reads it: trimmed of surrounding
\* whitespace and in lower case
Trimmed(str) ==
    LET keep == {i \in DOMAIN str : str[i] \notin {" ", "\t", "\n"}}
    IN  IF keep = {} THEN <<>>
        ELSE LET lo == CHOOSE i \in keep : \A j \in keep : i <= j
                 hi == CHOOSE i \in keep : \A j \in keep : j <= i
             IN  [i \in 1..(hi - lo + 1) |-> str[lo + i - 1]]

LowerCased(str) ==
    [i \in DOMAIN str |->
        CASE str[i] = "B" -> "b" [] str[i] = "P" -> "p" [] str[i] = "S" -> "s"
          [] str[i] = "K" -> "k" [] str[i] = "Q" -> "q" [] str[i] = "A" -> "a"
          [] str[i] = "M" -> "m" [] OTHER -> str[i]]

SchemeName(str) == LowerCased(Trimmed(str))

\* C3: modulate and demodulate called with a scheme string that is "bpsk"
\* or "qpsk" once lower-cased and trimmed return exactly what the call with
\* that canonical name returns on the same input; with any other string
\* they fail with UnsupportedSchemeError and return nothing.
C3_Dispatch ==
    /\ last.fn = "modulate" =>
          IF SchemeName(last.scheme) \in {bpsk, qpsk}
          THEN last.out = modulate(last.bits, SchemeName(last.scheme))
          ELSE FailsWith(last.out, "UnsupportedSchemeError")
    /\ last.fn = "demodulate" =>
          IF SchemeName(last.scheme) \in {bpsk, qpsk}
          THEN last.out = demodulate(last.symbols, SchemeName(last.scheme))
          ELSE FailsWith(last.out, "UnsupportedSchemeError")

C3_Witness ==
    /\ last.fn = "modulate"
    /\ last.scheme = <<"\t", "\n", "Q", "p", "s", "k", " ">>
    /\ last.bits.flat = <<1, 1>>
    /\ last.out.ok /\ Size(last.out.val) = 1

\* the number of positions where two sequences of equal length differ
Mismatches(a, b) == Cardinality({i \in DOMAIN a.flat : a.flat[i] # b.flat[i]})

\* C4: for non-empty bit sequences a and b of equal length, ber(a, b) is the
\* number of positions where they differ divided by the length; it lies in
\* [0, 1], equals ber(b, a), and is 0 when a = b.
C4_BerValue ==
    (last.fn = "ber" /\ IsBitSequence(last.a) /\ IsBitSequence(last.b)
        /\ Size(last.a) = Size(last.b) /\ Size(last.a) > 0)
    => /\ last.out.ok
       /\ last.out.val.den > 0
       /\ last.out.val.num * Size(last.a) = Mismatches(last.a, last.b) * last.out.val.den
       /\ 0 <= last.out.val.num /\ last.out.val.num <= last.out.val.den
       /\ ber(last.b, last.a) = last.out
       /\ (last.a = last.b => last.out.val.num = 0)

C4_Witness ==
    /\ last.fn = "ber" /\ last.out.ok
    /\ last.a.flat = <<0, 1>> /\ last.b.flat = <<0, 0>>
    /\ last.a.ndim = 1 /\ last.b.ndim = 1
    /\ last.out.val = [num |-> 1, den |-> 2]

\* C5: modulate, under either scheme, fails with InvalidInputError and ber
\* fails with InvalidBitValueError whenever an element of a bit argument is
\* an integer other than 0 or 1, whatever its sign and magnitude; nothing is
\* returned.  (ber is taken on arguments that pass its shape and emptiness
\* checks.)
C5_RejectsNonBinary ==
    /\ (last.fn = "modulate" /\ last.scheme \in {bpsk, qpsk} /\ HasNonBinary(last.bits))
       => FailsWith(last.out, "InvalidInputError")
    /\ (last.fn = "ber" /\ last.a.ndim = 1 /\ last.b.ndim = 1
        /\ Size(last.a) = Size(last.b) /\ Size(last.a) > 0
        /\ (HasNonBinary(last.a) \/ HasNonBinary(last.b)))
       => FailsWith(last.out, "InvalidBitValueError")

\* C6: ber and ser fail with ShapeMismatchError when an argument is not 1-D
\* or the lengths differ, whatever the values are, and with EmptyInputError
\* when both are 1-D and empty.
C6_ShapeBeforeEmpty ==
    (last.fn \in {"ber", "ser"})
    => /\ (last.a.ndim # 1 \/ last.b.ndim # 1 \/ Size(last.a) # Size(last.b))
          => FailsWith(last.out, "ShapeMismatchError")
       /\ (last.a.ndim = 1 /\ last.b.ndim = 1 /\ Size(last.a) = 0 /\ Size(last.b) = 0)
          => FailsWith(last.out, "EmptyInputError")

C6_Witness ==
    /\ last.fn = "ber"
    /\ last.a = Arr(1, "int64", <<>>) /\ last.b = Arr(1, "int64", <<2>>)
    /\ FailsWith(last.out, "ShapeMismatchError")

\* C7: qpsk modulate fails with InvalidInputError on every 1-D sequence of
\* odd length and returns nothing; on every bit sequence of even length it
\* returns half as many symbols.  The driver raises an odd n_bits by one
\* under qpsk before it generates the bits, so its modulate call gets n_bits
\* bits, an even number under qpsk, and succeeds.
C7_OddLength ==
    /\ (last.fn = "modulate" /\ last.scheme = qpsk /\ last.bits.ndim = 1)
       => /\ Size(last.bits) % 2 = 1 => FailsWith(last.out, "InvalidInputError")
          /\ (Size(last.bits) % 2 = 0 /\ IsBitSequence(last.bits))
             => last.out.ok /\ 2 * Size(last.out.val) = Size(last.bits)
    /\ (last.fn = "modulate" /\ last.caller = "main")
       => /\ n_bits = IF args.mod = qpsk /\ args.n_bits % 2 = 1
                      THEN args.n_bits + 1 ELSE args.n_bits
          /\ Size(last.bits) = n_bits
          /\ args.mod = qpsk => Size(last.bits) % 2 = 0
          /\ last.out.ok

C7_Witness ==
    /\ last.fn = "modulate" /\ last.caller = "main"
    /\ args.mod = qpsk /\ args.n_bits = 3
    /\ Size(last.bits) = 4 /\ last.out.ok /\ Size(last.out.val) = 2

\* the state of a generator seeded with seed once it has given out n values
SourceAfter(seed, n) == Gen(rng_after(default_rng(seed).state, n))

\* C8: two executions of the sweep with the same seed, scheme, bit count and
\* SNR list end with the same list of BER values (or the same failure).
\* The one seeded source gives the n_bits bits, then the noise of each point
\* in list order: the awgn call of point k starts from the state the source
\* was left in by the bits and points 1..k-1, n_bits draws each, and no
\* other source is drawn from.
C8_Reproducible ==
    /\ Len(sweeps) = 2 => sweeps[1] = sweeps[2]
    /\ (last.fn = "awgn" /\ last.caller = "main" /\ last.eff.out.ok)
       => LET k == Len(ber_list)
          IN  /\ last.rng_before = SourceAfter(args.seed, k * n_bits)
              /\ rng = SourceAfter(args.seed, (k + 1) * n_bits)

C8_Witness ==
    /\ Len(sweeps) = 2
    /\ sweeps[1].status = "done" /\ sweeps[2].status = "done"
    /\ Len(sweeps[1].ber_list) = 2
    /\ sweeps[1].ber_list[1].num > 0
    /\ sweeps[1].ber_list[1] # sweeps[1].ber_list[2]
    /\ sweeps[2].ber_list = sweeps[1].ber_list

\* 10^(d/10) for d a multiple of 10: <<numerator, denominator>>
Linear(snr_db) ==
    IF snr_db.db >= 0 THEN <<Pow10(snr_db.db \div 10), 1>>
    ELSE <<1, Pow10((-snr_db.db) \div 10)>>

C10_FailureFrame ==
    (last.fn = "awgn")
    => /\ last.eff.x = last.x
       /\ last.caller = "main" => x = last.x
       /\ ~last.eff.out.ok <=> (last.x.ndim # 1 \/ last.snr_db.cls = "-inf")
       /\ ~last.eff.out.ok
          => /\ last.eff.out.val = <<>>
             /\ last.eff.rng = last.rng_before
             /\ rng = last.rng_before

C10_Witness ==
    /\ last.fn = "awgn" /\ last.given /\ rng.some
    /\ last.x.ndim = 1 /\ last.x.dtype = "float64" /\ Size(last.x) = 2
    /\ last.snr_db = NegInf
    /\ FailsWith(last.eff.out, "InvalidSNRError")
    /\ rng = last.rng_before

====
